---- MODULE Spec2Model ----
(***************************************************************************)
(* PromptReader (src/src/lib.rs): a single-line editing buffer driven by   *)
(* key codes.  The state is the struct's three fields; the one operation   *)
(* is next_key, a match over KeyCode.  `result` is a Rust String: a UTF-8  *)
(* byte sequence, and `cursor` is a byte offset into it.                   *)
(***************************************************************************)
EXTENDS Integers, Sequences, FiniteSets, TLC

\* ------------------------------------------------------------------ bounds
\* Longest buffer (in bytes) the model lets next_key build.
MaxLen == 4
\* Largest cursor value the model lets next_key produce.
MaxCursor == 6
\* Longest placeholder (in characters) handed to new_with_placeholder.
MaxPlaceholder == 2

\* ------------------------------------------------------------------- usize
\* Width of usize in the model.  The real width is 32 or 64 bits; the model
\* checker's integers are 32-bit signed, so the modulus is taken below that.
\* All that the code's arithmetic needs of it is that usize::MAX lies beyond
\* every cursor and length the bounded model reaches.
UsizeBits == 30

UsizeModulus == 2 ^ UsizeBits

\* a - b as the release build computes it (two's complement wrap-around).
WrappingSub(a, b) == (a - b) % UsizeModulus

\* a + b as the release build computes it.
WrappingAdd(a, b) == (a + b) % UsizeModulus

\* Does a - b overflow?  (The debug build panics exactly then.)
SubOverflows(a, b) == a < b

\* Does a + b overflow?
AddOverflows(a, b) == a + b >= UsizeModulus

\* The two arithmetic behaviours a build of the crate can have:
\* overflow-checks on (the dev profile) or off (the release profile).
Builds == {"debug", "release"}

\* ---------------------------------------------------------------- KeyCode
NoPayloadTags ==
    {"Backspace", "Enter", "Left", "Right", "Up", "Down", "Home", "End",
     "PageUp", "PageDown", "Tab", "BackTab", "Delete", "Insert", "Null", "Esc"}

\* The tags the match in next_key sends to its default arm.
OtherTags ==
    NoPayloadTags \ {"Backspace", "Enter", "Left", "Right", "Delete"}

\* Characters the key source types: code points of 'a' and 'b'.
AsciiChars == {97, 98}

\* With a two-byte character added: U+00E9.
Utf8Chars == AsciiChars \cup {233}

\* impl From<char> for KeyCode
KeyFromChar(c) == [tag |-> "Char", ch |-> c]

KeyOf(t) == [tag |-> t]

\* ------------------------------------------------------- String (UTF-8)
\* char::encode_utf8 for code points below U+0800, as String::push and
\* String::insert store a char.
Utf8Encode(c) ==
    IF c < 128 THEN <<c>> ELSE <<192 + (c \div 64), 128 + (c % 64)>>

\* Number of bytes of the character whose first byte is b.
Utf8Width(b) == IF b < 128 THEN 1 ELSE 2

\* A continuation byte: 0b10xxxxxx.
IsContinuation(b) == b >= 128 /\ b < 192

\* str::is_char_boundary
IsCharBoundary(s, idx) ==
    IF idx = 0 THEN TRUE
    ELSE IF idx >= Len(s) THEN idx = Len(s)
    ELSE ~IsContinuation(s[idx + 1])

\* The value the string operations below yield when the library panics.
Panic == <<-1>>

\* String::push(c)
StringPush(s, c) == s \o Utf8Encode(c)

\* String::insert(idx, c): panics unless idx is a char boundary of s.
StringInsert(s, idx, c) ==
    IF ~IsCharBoundary(s, idx) THEN Panic
    ELSE SubSeq(s, 1, idx) \o Utf8Encode(c) \o SubSeq(s, idx + 1, Len(s))

\* String::remove(idx): removes the char starting at byte idx; panics when
\* idx is at or past the end, or is not a char boundary.
StringRemove(s, idx) ==
    IF idx >= Len(s) \/ ~IsCharBoundary(s, idx) THEN Panic
    ELSE SubSeq(s, 1, idx) \o SubSeq(s, idx + 1 + Utf8Width(s[idx + 1]), Len(s))

\* All strings of at most n characters over the alphabet cs, as byte sequences.
RECURSIVE Strings(_, _)
Strings(cs, n) ==
    IF n = 0 THEN {<<>>}
    ELSE LET shorter == Strings(cs, n - 1)
         IN  shorter \cup {StringPush(s, c) : s \in shorter, c \in cs}

\* ------------------------------------------------------------------ state
VARIABLES
    result,     \* PromptReader.result, as a sequence of bytes
    cursor,     \* PromptReader.cursor
    done,       \* PromptReader.done
    build,      \* which arithmetic the build has: "debug" or "release"
    panicked,   \* next_key has panicked: the thread unwinds, no further call
    key,        \* the key code of the latest next_key call ("None" before any)
    old,        \* the fields as they were when the latest next_key call began
    enterSeen,  \* some next_key call so far was given Enter
    typing,     \* the constructor call and the Char keys fed since, kept
                \* for as long as no other key has been fed
    rightRun    \* how many Right keys in a row have been fed since the
                \* cursor stood at 0, up to the buffer's length (else NoRun)

vars ==
    <<result, cursor, done, build, panicked, key, old, enterSeen, typing,
      rightRun>>

\* The constructor call `kind` with placeholder ph and cursor_pos pos (an
\* Option: <<>> is None, <<k>> is Some(k)), followed by the Char keys `chars`.
Typing(kind, ph, pos, chars) ==
    [kind |-> kind, ph |-> ph, pos |-> pos, chars |-> chars]

\* Some key other than Char has been fed.
Mixed == [kind |-> "mixed"]

\* No run of Right keys from cursor 0 is under way.
NoRun == 0 - 1

Fields == [result |-> result, cursor |-> cursor, done |-> done]

\* struct PromptReader { result: String, cursor: usize, done: bool }, with
\* the bookkeeping of the latest call.
TypeOK ==
    /\ result \in Seq(0 .. 255)
    /\ cursor \in 0 .. UsizeModulus - 1
    /\ done \in BOOLEAN
    /\ build \in Builds
    /\ panicked \in BOOLEAN
    /\ key.tag \in NoPayloadTags \cup {"Char", "None"}
    /\ old.result \in Seq(0 .. 255)
    /\ old.cursor \in 0 .. UsizeModulus - 1
    /\ old.done \in BOOLEAN
    /\ enterSeen \in BOOLEAN
    /\ typing.kind \in {"new", "new_with_placeholder", "mixed"}
    /\ rightRun \in NoRun .. Len(result)

\* ----------------------------------------------------------- constructors
Constructed(r, c) ==
    /\ result = r
    /\ cursor = c
    /\ done = FALSE
    /\ build \in Builds
    /\ panicked = FALSE
    /\ key = KeyOf("None")
    /\ old = [result |-> r, cursor |-> c, done |-> FALSE]
    /\ enterSeen = FALSE
    /\ rightRun = IF c = 0 THEN 0 ELSE NoRun

\* A plausible slip: the cursor of new() is taken for the default.
UnwrapOrLenZero(ph, pos) == IF pos = <<>> THEN 0 ELSE pos[1]

\* cursor_pos.unwrap_or_else(|| ph.len())
UnwrapOrLen(ph, pos) == IF pos = <<>> THEN Len(ph) ELSE pos[1]

\* PromptReader::new()
New ==
    /\ Constructed(<<>>, 0)
    /\ typing = Typing("new", <<>>, <<>>, <<>>)

\* PromptReader::new_with_placeholder(ph, pos)
NewWithPlaceholder(ph, pos) ==
    /\ Constructed(ph, UnwrapOrLen(ph, pos))
    /\ typing = Typing("new_with_placeholder", ph, pos, <<>>)

\* PromptReader::new_with_placeholder(ph, None)
NewWithPlaceholderNone(ph) == NewWithPlaceholder(ph, <<>>)

\* PromptReader::new_with_placeholder(ph, Some(pos))
NewWithPlaceholderSome(ph, pos) == NewWithPlaceholder(ph, <<pos>>)

\* The constructions the caller contract allows: a cursor position, when
\* given, lies within [0, len(ph)].
Init ==
    \/ New
    \/ \E ph \in Strings(AsciiChars, MaxPlaceholder) :
          \/ NewWithPlaceholderNone(ph)
          \/ \E pos \in 0 .. Len(ph) : NewWithPlaceholderSome(ph, pos)

\* Every construction the code accepts: cursor_pos is not validated, so it
\* may lie beyond the placeholder's end.
InitAnyPos ==
    \/ New
    \/ \E ph \in Strings(AsciiChars, MaxPlaceholder) :
          \/ NewWithPlaceholderNone(ph)
          \/ \E pos \in 0 .. MaxCursor : NewWithPlaceholderSome(ph, pos)

\* In-contract constructions whose placeholder may hold a two-byte
\* character; a given cursor position is a char boundary of it.
InitUtf8 ==
    \/ New
    \/ \E ph \in Strings(Utf8Chars, MaxPlaceholder) :
          /\ Len(ph) <= MaxLen
          /\ \/ NewWithPlaceholderNone(ph)
             \/ \E pos \in 0 .. Len(ph) :
                   IsCharBoundary(ph, pos) /\ NewWithPlaceholderSome(ph, pos)

\* ---------------------------------------------------------------- next_key
\* One completed (or panicked) call next_key(k) that leaves the fields at
\* r, c, d.  The model follows the buffer up to MaxLen bytes and the cursor
\* up to MaxCursor.
Step(k, r, c, d, p) ==
    /\ ~panicked
    /\ Len(r) <= MaxLen
    /\ c <= MaxCursor
    /\ result' = r
    /\ cursor' = c
    /\ done' = d
    /\ panicked' = p
    /\ key' = k
    /\ old' = Fields
    /\ enterSeen' = (enterSeen \/ k.tag = "Enter")
    /\ build' = build
    /\ typing' = IF k.tag = "Char" /\ typing.kind # "mixed" /\ ~p
                  THEN [typing EXCEPT !.chars = Append(@, k.ch)]
                  ELSE Mixed
    /\ rightRun' = IF k.tag = "Right" /\ rightRun # NoRun /\ rightRun < Len(r)
                    THEN rightRun + 1
                    ELSE IF c = 0 THEN 0 ELSE NoRun

\* A plausible slip: the assignment to self.cursor is forgotten.
StepCursorStays(k, r) == Step(k, r, cursor, done, FALSE)

\* self.cursor + 1, then the assignment to self.cursor: the debug build
\* panics on overflow, with `r` already stored in self.result.
StepCursorPlusOne(k, r) ==
    IF AddOverflows(cursor, 1) /\ build = "debug"
    THEN Step(k, r, cursor, done, TRUE)
    ELSE Step(k, r, WrappingAdd(cursor, 1), done, FALSE)

\* A plausible slip: the character is always appended, wherever the cursor is.
CharResultAlwaysPush(r, cur, c) == StringPush(r, c)

\* The buffer after the Char arm's push or insert.
CharResult(r, cur, c) ==
    IF cur >= Len(r) THEN StringPush(r, c) ELSE StringInsert(r, cur, c)

\* A plausible slip: once submitted, the buffer no longer takes characters.
NextKeyCharFrozen(c) ==
    IF done
    THEN Step(KeyFromChar(c), result, cursor, done, FALSE)
    ELSE LET r == CharResult(result, cursor, c)
         IN  IF r = Panic
             THEN Step(KeyFromChar(c), result, cursor, done, TRUE)
             ELSE StepCursorPlusOne(KeyFromChar(c), r)

\* KeyCode::Char(c)
NextKeyChar(c) ==
    LET r == CharResult(result, cursor, c)
    IN  IF r = Panic
        THEN Step(KeyFromChar(c), result, cursor, done, TRUE)
        ELSE StepCursorPlusOne(KeyFromChar(c), r)

\* KeyCode::Backspace
NextKeyBackspace ==
    IF cursor # 0
    THEN LET r == StringRemove(result, cursor - 1)
         IN  IF r = Panic
             THEN Step(KeyOf("Backspace"), result, cursor, done, TRUE)
             ELSE Step(KeyOf("Backspace"), r, cursor - 1, done, FALSE)
    ELSE Step(KeyOf("Backspace"), result, cursor, done, FALSE)

\* KeyCode::Delete
NextKeyDelete ==
    IF cursor # Len(result)
    THEN LET r == StringRemove(result, cursor)
         IN  IF r = Panic
             THEN Step(KeyOf("Delete"), result, cursor, done, TRUE)
             ELSE Step(KeyOf("Delete"), r, cursor, done, FALSE)
    ELSE Step(KeyOf("Delete"), result, cursor, done, FALSE)

\* A plausible slip: the guard compares against 1 instead of 0.
LeftCursorGuardOne(cur) == IF cur > 1 THEN cur - 1 ELSE cur

\* The cursor after the Left arm.
LeftCursor(cur) == IF cur # 0 THEN cur - 1 ELSE cur

\* KeyCode::Left
NextKeyLeft == Step(KeyOf("Left"), result, LeftCursor(cursor), done, FALSE)

\* The Right arm's condition, self.cursor >= self.result.len() - 1, once the
\* subtraction has not panicked.
RightAdvances(cur, len) == cur >= WrappingSub(len, 1)

\* KeyCode::Right.  result.len() - 1 underflows on the empty buffer: the
\* debug build panics there, the release build wraps to usize::MAX.
NextKeyRight ==
    IF SubOverflows(Len(result), 1) /\ build = "debug"
    THEN Step(KeyOf("Right"), result, cursor, done, TRUE)
    ELSE IF RightAdvances(cursor, Len(result))
         THEN StepCursorPlusOne(KeyOf("Right"), result)
         ELSE Step(KeyOf("Right"), result, cursor, done, FALSE)

\* A plausible slip: the Enter arm forgets the assignment.
EnterDoneKeep(d) == d

\* A plausible slip: Enter toggles the flag.
EnterDoneToggle(d) == ~d

\* The flag after the Enter arm.
EnterDone(d) == TRUE

\* KeyCode::Enter
NextKeyEnter == Step(KeyOf("Enter"), result, cursor, EnterDone(done), FALSE)

\* A plausible slip: Esc is taken as a second way to finish.
OtherDoneEsc(t, d) == d \/ t = "Esc"

\* The flag after the default arm.
OtherDone(t, d) == d

\* A plausible slip: Home is given its usual meaning.
OtherCursorHome(t, cur) == IF t = "Home" THEN 0 ELSE cur

\* The cursor after the default arm.
OtherCursor(t, cur) == cur

\* `_ => {}`
NextKeyOther(t) ==
    Step(KeyOf(t), result, OtherCursor(t, cursor), OtherDone(t, done), FALSE)

\* PromptReader::done()
Done == done

\* PromptReader::result()
Result == result

Next ==
    \/ \E c \in AsciiChars : NextKeyChar(c)
    \/ NextKeyBackspace
    \/ NextKeyDelete
    \/ NextKeyLeft
    \/ NextKeyRight
    \/ NextKeyEnter
    \/ \E t \in OtherTags : NextKeyOther(t)

Spec == Init /\ [][Next]_vars

\* The same editor from any construction the code accepts.
SpecAnyPos == InitAnyPos /\ [][Next]_vars

\* The key source also types a two-byte character.
NextUtf8 ==
    \/ \E c \in Utf8Chars : NextKeyChar(c)
    \/ NextKeyBackspace
    \/ NextKeyDelete
    \/ NextKeyLeft
    \/ NextKeyRight
    \/ NextKeyEnter
    \/ \E t \in OtherTags : NextKeyOther(t)

SpecUtf8 == InitUtf8 /\ [][NextUtf8]_vars

\* ================================================================= claims
\* The latest call was next_key with a key of tag t.
Pressed(t) == key.tag = t

\* The three fields are as they were when the latest call began.
Unchanged == result = old.result /\ cursor = old.cursor /\ done = old.done

\* s with the unit at offset i (counted from 0) removed.
Without(s, i) == SubSeq(s, 1, i) \o SubSeq(s, i + 2, Len(s))

\* C1: in every state reached from an in-contract construction by next_key
\* calls, 0 <= cursor <= length(text).
C1_CursorInRange == 0 <= cursor /\ cursor <= Len(result)

\* C2: next_key is total: no sequence of key events reaches a panic.
C2_NeverPanics == ~panicked

\* C3: Right increases the cursor by exactly 1 when cursor < length(text)
\* and changes nothing when cursor = length(text); text and done are
\* unchanged in both cases.
C3_Right ==
    Pressed("Right") =>
        /\ old.cursor < Len(old.result) =>
              ~panicked /\ cursor = old.cursor + 1
                        /\ result = old.result /\ done = old.done
        /\ old.cursor = Len(old.result) => ~panicked /\ Unchanged

\* C4: Left with the cursor at 0 leaves (text, cursor, done) unchanged, and
\* Right with the cursor at length(text) leaves them unchanged, so that any
\* number of repetitions does.
C4_BoundaryIdempotence ==
    /\ Pressed("Left") /\ old.cursor = 0 => ~panicked /\ Unchanged
    /\ Pressed("Right") /\ old.cursor = Len(old.result) => ~panicked /\ Unchanged

\* C5: done is monotonic: a next_key call that begins with done true ends
\* with done true, whatever the key.
C5_DoneMonotonic == old.done => done

C5_Witness == old.done /\ done /\ Pressed("Char")

\* C6: done is true exactly when some next_key call so far was given Enter,
\* and a call with any other key leaves done as it was.
C6_DoneIffEnter ==
    /\ Done <=> enterSeen
    /\ ~Pressed("Enter") => done = old.done

C6_Witness == Done /\ enterSeen /\ Pressed("Esc")

\* C7: Char(c) from a state with 0 <= cursor <= length(text) gives
\* text' = text[0..cursor] ++ <c> ++ text[cursor..], cursor' = cursor + 1,
\* done unchanged.
C7_Char ==
    Pressed("Char") /\ old.cursor <= Len(old.result) =>
        /\ ~panicked
        /\ result = SubSeq(old.result, 1, old.cursor) \o <<key.ch>>
                      \o SubSeq(old.result, old.cursor + 1, Len(old.result))
        /\ cursor = old.cursor + 1
        /\ done = old.done

C7_Witness ==
    /\ Pressed("Char")
    /\ 0 < old.cursor /\ old.cursor < Len(old.result)
    /\ Len(result) = Len(old.result) + 1

\* C8: Backspace with cursor # 0 removes exactly the unit at offset
\* cursor - 1 and decrements the cursor; with cursor = 0 it changes nothing.
C8_Backspace ==
    Pressed("Backspace") =>
        /\ ~panicked
        /\ old.cursor # 0 =>
              /\ result = Without(old.result, old.cursor - 1)
              /\ Len(result) = Len(old.result) - 1
              /\ cursor = old.cursor - 1
              /\ done = old.done
        /\ old.cursor = 0 => Unchanged

\* C9: Delete with cursor # length(text) removes exactly the unit at offset
\* cursor and leaves the cursor where it was; with cursor = length(text) it
\* changes nothing.
C9_Delete ==
    Pressed("Delete") =>
        /\ ~panicked
        /\ old.cursor # Len(old.result) =>
              /\ result = Without(old.result, old.cursor)
              /\ Len(result) = Len(old.result) - 1
              /\ cursor = old.cursor
              /\ done = old.done
        /\ old.cursor = Len(old.result) => Unchanged

\* C10: Left decrements the cursor by exactly 1 when cursor # 0 and changes
\* nothing when cursor = 0; text and done are unchanged in both cases.
C10_Left ==
    Pressed("Left") =>
        /\ ~panicked
        /\ result = old.result
        /\ done = old.done
        /\ old.cursor # 0 => cursor = old.cursor - 1
        /\ old.cursor = 0 => cursor = 0

C10_Witness == Pressed("Left") /\ old.cursor # 0 /\ cursor = old.cursor - 1

\* C11: Enter sets done to true and leaves text and cursor unchanged, in
\* every state.
C11_Enter ==
    Pressed("Enter") =>
        ~panicked /\ done /\ result = old.result /\ cursor = old.cursor

C11_Witness ==
    Pressed("Enter") /\ ~old.done /\ done /\ 0 < cursor /\ cursor < Len(result)

\* The key codes C12 names.
C12_Tags ==
    {"Up", "Down", "Home", "End", "PageUp", "PageDown", "Tab", "BackTab",
     "Insert", "Null", "Esc"}

\* C12: every key code other than Char, Backspace, Delete, Left, Right and
\* Enter leaves text, cursor and done unchanged, in every state; and those
\* key codes are exactly the ones the default arm receives.
C12_OtherKeys ==
    /\ C12_Tags = OtherTags
    /\ key.tag \in C12_Tags => ~panicked /\ Unchanged

C12_Witness ==
    Pressed("Home") /\ cursor > 0 /\ Len(result) > 0 /\ old.done /\ Unchanged

\* No key has been fed since the constructor returned.
Fresh == key.tag = "None"

\* C13: new() yields empty text, cursor 0, done false;
\* new_with_placeholder(p, None) yields text p, cursor length(p), done
\* false; new_with_placeholder(p, Some(k)) yields text p, cursor k, done
\* false (for every k, in range or not).
C13_InitialStates ==
    Fresh =>
        /\ ~done
        /\ typing.kind = "new" => result = <<>> /\ cursor = 0
        /\ typing.kind = "new_with_placeholder" =>
              /\ result = typing.ph
              /\ typing.pos = <<>> => cursor = Len(typing.ph)
              /\ typing.pos # <<>> => cursor = typing.pos[1]

C13_Witness ==
    /\ Fresh
    /\ typing.kind = "new_with_placeholder"
    /\ typing.pos = <<1>>
    /\ Len(typing.ph) = MaxPlaceholder
    /\ cursor = 1

\* The cursor the constructor call recorded in `typing` asked for.
InitialCursor == IF typing.pos = <<>> THEN Len(typing.ph) ELSE typing.pos[1]

\* C14: for a placeholder p, an initial cursor k in [0, length(p)] and a
\* sequence s of Char keys fed with no other key, result() is
\* p[0..k] ++ s ++ p[k..] and done() is false.
C14_TypingAtCursor ==
    typing.kind # "mixed" =>
        /\ ~panicked
        /\ ~Done
        /\ Result = SubSeq(typing.ph, 1, InitialCursor) \o typing.chars
                      \o SubSeq(typing.ph, InitialCursor + 1, Len(typing.ph))

C14_Witness ==
    /\ typing.kind = "new_with_placeholder"
    /\ Len(typing.ph) = 2
    /\ typing.pos = <<1>>
    /\ Len(typing.chars) = 2
    /\ typing.chars[1] # typing.chars[2]

\* C15: from a state with cursor = length(text), any number of Right keys
\* followed by Char(c) leaves result() equal to the previous text with c
\* appended.  Stated step by step: a Right fed at or beyond the end of the
\* buffer completes, keeps the text and leaves the cursor at or beyond the
\* end; a Char fed there completes and appends c.
C15_RightThenChar ==
    /\ Pressed("Right") /\ old.cursor >= Len(old.result) =>
          ~panicked /\ Result = old.result /\ cursor >= Len(result)
    /\ Pressed("Char") /\ old.cursor >= Len(old.result) =>
          ~panicked /\ Result = old.result \o <<key.ch>>

\* next_key(k), called now, would leave text r and cursor c, and would
\* panic or not as p says.
Yields(k, r, c, p) ==
    ENABLED (Next /\ key' = k /\ result' = r /\ cursor' = c /\ panicked' = p)

\* The same, were Enter fed first (so that done is true when k arrives).
AfterEnterYields(k, r, c, p) ==
    ENABLED (NextKeyEnter /\ done' /\ Yields(k, r, c, p)')

\* C16: submission does not freeze the buffer: what a key does to (text,
\* cursor) is the same whether done is false or true.  For every call made
\* with done false, the same key fed to the same text and cursor with done
\* true (after an Enter) has the same outcome; and a Char fed with done true
\* still changes the text.
C16_NotFrozen ==
    [][ /\ ~done =>
             \A k \in {key'}, r \in {result'}, c \in {cursor'},
                p \in {panicked'} : AfterEnterYields(k, r, c, p)
        /\ done /\ key'.tag = "Char" /\ ~panicked' => result' # result
      ]_vars

C16_Witness ==
    old.done /\ Pressed("Backspace") /\ Len(Result) < Len(old.result)

\* C17: with text a byte sequence in which a character may take more than
\* one byte, and the cursor a byte offset, the cursor never lies strictly
\* inside a multi-byte character after any sequence of key events.
C17_CursorOnCharBoundary ==
    ~(0 < cursor /\ cursor < Len(result) /\ IsContinuation(result[cursor + 1]))

\* C18: from any reachable state with cursor > 0 (every position in
\* [1, length(text)], not only the end), Left followed by Right restores
\* the original (text, cursor, done).
C18_LeftRightRoundTrip ==
    [][ Pressed("Left") /\ old.cursor > 0 /\ key'.tag = "Right" =>
            /\ ~panicked'
            /\ result' = old.result
            /\ cursor' = old.cursor
            /\ done' = old.done
      ]_vars

\* C19: from any reachable state, Char(c) followed by Backspace completes
\* without a crash and restores the original text and cursor.
C19_CharBackspaceRoundTrip ==
    [][ Pressed("Char") =>
            /\ ~panicked
            /\ key'.tag = "Backspace" =>
                  /\ ~panicked'
                  /\ result' = old.result
                  /\ cursor' = old.cursor
      ]_vars

\* C20: from a state with text of length n and cursor 0, feeding n Right
\* keys moves the cursor through 1, 2, ..., n in order: after the j-th of
\* them (j <= n) the cursor is j.
C20_RightRunReachesEnd ==
    rightRun # NoRun => cursor = rightRun /\ rightRun <= Len(result)

====
